---------------------------- MODULE Spec2Model ----------------------------
(***************************************************************************)
(* The PromptScript Pygments lexer (docs_extensions/promptscript_lexer.py) *)
(* as a state machine: the rule table PromptScriptLexer.tokens, state by   *)
(* state and rule by rule, driven by the RegexLexer loop the class         *)
(* inherits (first matching rule of the active state wins, bygroups emits  *)
(* one token per non-empty group, a new_state of a name pushes, "#push"    *)
(* re-pushes the top, "#pop" pops, no match emits one Error character).    *)
(*                                                                         *)
(* A text is a sequence of one-character strings; offsets are 0-based as   *)
(* in Python, so the character at offset p is text[p + 1].                 *)
(*                                                                         *)
(* Three specifications share the module: Spec and FairSpec run one        *)
(* tokenization (text, pos, statestack, tokens, pc); CallsSpec runs        *)
(* several format_promptscript calls side by side (calls); HooksSpec runs  *)
(* the two page hooks of mkdocs_hooks.py on one page (docs_version, html,  *)
(* hook). Each leaves the variables of the others untouched.               *)
(***************************************************************************)
EXTENDS Integers, Sequences, FiniteSets, TLC

VARIABLES text, pos, statestack, tokens, pc, calls, docs_version, html, hook

vars == <<text, pos, statestack, tokens, pc, calls, docs_version, html, hook>>

\* the variables of one tokenization
lexing == <<text, pos, statestack, tokens, pc>>

\* the variables of the page hooks
hooks == <<docs_version, html, hook>>

(***************************************************************************)
(* Character classes of Python's re on the characters used here.           *)
(***************************************************************************)
Upper == {"A", "B", "C", "D", "E", "F", "G", "H", "I", "J", "K", "L", "M",
          "N", "O", "P", "Q", "R", "S", "T", "U", "V", "W", "X", "Y", "Z"}

Lower == {"a", "b", "c", "d", "e", "f", "g", "h", "i", "j", "k", "l", "m",
          "n", "o", "p", "q", "r", "s", "t", "u", "v", "w", "x", "y", "z"}

Digit == {"0", "1", "2", "3", "4", "5", "6", "7", "8", "9"}

\* a character class [...] or [^...]
Class(set) == [neg |-> FALSE, set |-> set]

NotClass(set) == [neg |-> TRUE, set |-> set]

\* whether the character c is in the class; "" (no character) is in none
In(c, class) == c # "" /\ ((c \in class.set) # class.neg)

\* \s
Space == {" ", "\t", "\n", "\r", "\f"}

\* \w
Word == Upper \cup Lower \cup Digit \cup {"_"}

IsWord(c) == c \in Word

\* the result of a pattern that does not match at the cursor
NoMatch == 0 - 1

\* the character at offset p, "" past the end (no class contains "")
At(t, p) == IF 0 <= p /\ p < Len(t) THEN t[p + 1] ELSE ""

\* t[a:b]
Slice(t, a, b) == SubSeq(t, a + 1, b)

\* whether the literal w stands at offset p
Lit(t, p, w) == p + Len(w) <= Len(t) /\ Slice(t, p, p + Len(w)) = w

\* the offset where the greedy run  [class]*  starting at p ends
RunEnd(t, p, class) ==
    CHOOSE e \in p..Len(t) :
        /\ \A i \in (p + 1)..e : In(t[i], class)
        /\ (e = Len(t) \/ ~In(t[e + 1], class))

\* the end of  [class]+  at p, or NoMatch
Plus(t, p, class) ==
    LET e == RunEnd(t, p, class) IN IF e > p THEN e ELSE NoMatch

\* \b at offset p: exactly one side is a word character
WordBoundary(t, p) == IsWord(At(t, p - 1)) # IsWord(At(t, p))

Min(S) == CHOOSE m \in S : \A n \in S : m <= n

(***************************************************************************)
(* The patterns of the rule table. Each gives the offset where its match   *)
(* at p ends, or NoMatch; the ones used with bygroups give their groups.   *)
(***************************************************************************)

\* r"#.*$" under re.MULTILINE: '#' and the rest of the line
CommentEnd(t, p) ==
    IF At(t, p) = "#"
    THEN RunEnd(t, p + 1, NotClass({"\n"}))
    ELSE NoMatch

\* WhitespaceEnd written r"\s*": it matches the empty span too
WhitespaceEndStar(t, p) == RunEnd(t, p, Class(Space))

\* r"\s+"
WhitespaceEnd(t, p) == Plus(t, p, Class(Space))

DeclarationKeywords ==
    << <<"m", "e", "t", "a">>,
       <<"i", "d", "e", "n", "t", "i", "t", "y">>,
       <<"s", "t", "a", "n", "d", "a", "r", "d", "s">>,
       <<"s", "h", "o", "r", "t", "c", "u", "t", "s">>,
       <<"a", "g", "e", "n", "t", "s">>,
       <<"s", "k", "i", "l", "l", "s">>,
       <<"l", "o", "c", "a", "l">>,
       <<"e", "x", "t", "e", "n", "d">>,
       <<"r", "e", "s", "t", "r", "i", "c", "t", "i", "o", "n", "s">> >>

\* whether what follows an alternation matches at offset e: r"\b", or
\* r"\s*(:)"
Follows(t, e, rest) ==
    CASE rest = "\\b"   -> WordBoundary(t, e)
      [] rest = "\\s*:" -> At(t, RunEnd(t, e, Class(Space))) = ":"

\* the end of the first alternative of words that stands at p and is
\* followed by rest, or NoMatch
AltEnd(t, p, words, rest) ==
    LET ok == {i \in 1..Len(words) :
                  Lit(t, p, words[i]) /\ Follows(t, p + Len(words[i]), rest)}
    IN  IF ok = {} THEN NoMatch ELSE p + Len(words[Min(ok)])

\* a pattern with groups that does not match
NoGroups == [end |-> NoMatch, groups |-> <<>>]

\* a match of a pattern with groups: where the match ends, and the
\* <<start, end>> of each group
Groups(e, spans) == [end |-> e, groups |-> spans]

\* r"(@)(meta|identity|...|restrictions)\b"
DeclarationGroups(t, p) ==
    LET e == AltEnd(t, p + 1, DeclarationKeywords, "\\b")
    IN  IF At(t, p) = "@" /\ e # NoMatch
        THEN Groups(e, << <<p, p + 1>>, <<p + 1, e>> >>)
        ELSE NoGroups

\* [\w\-./]
PathChar == Class(Word \cup {"-", ".", "/"})

\* [\w\-.]
VersionChar == Class(Word \cup {"-", "."})

\* r"@[\w\-./]+(?:@[\w\-.]+)?" at p
ScopedPathEnd(t, p) ==
    IF At(t, p) = "@" /\ In(At(t, p + 1), PathChar)
    THEN LET e == RunEnd(t, p + 1, PathChar)
         IN  IF At(t, e) = "@" /\ In(At(t, e + 1), VersionChar)
             THEN RunEnd(t, e + 1, VersionChar)
             ELSE e
    ELSE NoMatch

\* r"\.[\w\-./]+" at p
RelativePathEnd(t, p) ==
    IF At(t, p) = "." /\ In(At(t, p + 1), PathChar)
    THEN RunEnd(t, p + 1, PathChar)
    ELSE NoMatch

\* r"(@inherit)(\s+)(@[\w\-./]+(?:@[\w\-.]+)?)"
InheritGroups(t, p) ==
    LET kw == <<"@", "i", "n", "h", "e", "r", "i", "t">>
        e1 == p + Len(kw)
        e2 == Plus(t, e1, Class(Space))
        e3 == ScopedPathEnd(t, e2)
    IN  IF Lit(t, p, kw) /\ e2 # NoMatch /\ e3 # NoMatch
        THEN Groups(e3, << <<p, e1>>, <<e1, e2>>, <<e2, e3>> >>)
        ELSE NoGroups

\* r"(@use)(\s+)(@[\w\-./]+(?:@[\w\-.]+)?|\.[\w\-./]+)"
UseGroups(t, p) ==
    LET kw == <<"@", "u", "s", "e">>
        e1 == p + Len(kw)
        e2 == Plus(t, e1, Class(Space))
        e3 == IF ScopedPathEnd(t, e2) # NoMatch
              THEN ScopedPathEnd(t, e2)
              ELSE RelativePathEnd(t, e2)
    IN  IF Lit(t, p, kw) /\ e2 # NoMatch /\ e3 # NoMatch
        THEN Groups(e3, << <<p, e1>>, <<e1, e2>>, <<e2, e3>> >>)
        ELSE NoGroups

KnownKeys ==
    << <<"i", "d">>,
       <<"n", "a", "m", "e">>,
       <<"s", "y", "n", "t", "a", "x">>,
       <<"d", "e", "s", "c", "r", "i", "p", "t", "i", "o", "n">>,
       <<"v", "e", "r", "s", "i", "o", "n">>,
       <<"a", "u", "t", "h", "o", "r">>,
       <<"l", "i", "c", "e", "n", "s", "e">>,
       <<"h", "o", "m", "e", "p", "a", "g", "e">>,
       <<"r", "e", "p", "o", "s", "i", "t", "o", "r", "y">>,
       <<"k", "e", "y", "w", "o", "r", "d", "s">>,
       <<"e", "x", "t", "e", "n", "d", "s">>,
       <<"t", "y", "p", "e">>,
       <<"c", "o", "n", "t", "e", "n", "t">>,
       <<"c", "o", "n", "v", "e", "n", "t", "i", "o", "n">>,
       <<"t", "r", "i", "g", "g", "e", "r">>,
       <<"e", "n", "a", "b", "l", "e", "d">>,
       <<"p", "a", "t", "h">>,
       <<"p", "r", "o", "m", "p", "t">>,
       <<"m", "o", "d", "e", "l">>,
       <<"t", "o", "o", "l", "s">> >>

\* r"(id|name|...|tools)\s*(:)"
KnownKeyGroups(t, p) ==
    LET e1 == AltEnd(t, p, KnownKeys, "\\s*:")
        c  == RunEnd(t, e1, Class(Space))
    IN  IF e1 # NoMatch
        THEN Groups(c + 1, << <<p, e1>>, <<c, c + 1>> >>)
        ELSE NoGroups

\* [\w\-]
LabelChar == Class(Word \cup {"-"})

\* LabelGroups written r"([\w\-]*)\s*(:)?": the name and the colon optional
LabelGroupsOptional(t, p) ==
    LET e1 == RunEnd(t, p, LabelChar)
        c  == RunEnd(t, e1, Class(Space))
    IN  IF At(t, c) = ":"
        THEN Groups(c + 1, << <<p, e1>>, <<c, c + 1>> >>)
        ELSE Groups(c, << <<p, e1>>, <<c, c>> >>)

\* r"([\w\-]+)\s*(:)"
LabelGroups(t, p) ==
    LET e1 == Plus(t, p, LabelChar)
        c  == RunEnd(t, e1, Class(Space))
    IN  IF e1 # NoMatch /\ At(t, c) = ":"
        THEN Groups(c + 1, << <<p, e1>>, <<c, c + 1>> >>)
        ELSE NoGroups

\* r'"""'
TripleQuoteEnd(t, p) ==
    IF Lit(t, p, <<"\"", "\"", "\"">>) THEN p + 3 ELSE NoMatch

\* r"-\s+"
ListMarkerEnd(t, p) ==
    IF At(t, p) = "-" THEN Plus(t, p + 1, Class(Space)) ELSE NoMatch

\* a single literal character
CharEnd(t, p, c) == IF At(t, p) = c THEN p + 1 ELSE NoMatch

\* [A-Z_]
EnvStart == Class(Upper \cup {"_"})

\* [A-Z0-9_]
EnvChar == Class(Upper \cup Digit \cup {"_"})

\* EnvVarEnd with the name written [a-z_][a-z0-9_]*
EnvVarEndLower(t, p) ==
    IF Lit(t, p, <<"$", "{">>) /\ In(At(t, p + 2), Class(Lower \cup {"_"}))
    THEN LET n == RunEnd(t, p + 3, Class(Lower \cup Digit \cup {"_"}))
             d == RunEnd(t, n + 2, NotClass({"}"}))
         IN  IF At(t, n) = "}" THEN n + 1
             ELSE IF Lit(t, n, <<":", "-">>) /\ At(t, d) = "}" THEN d + 1
             ELSE NoMatch
    ELSE NoMatch

\* ENV_VAR_PATTERN = r"\$\{[A-Z_][A-Z0-9_]*(?::-[^}]*)?\}"
EnvVarEnd(t, p) ==
    IF Lit(t, p, <<"$", "{">>) /\ In(At(t, p + 2), EnvStart)
    THEN LET n == RunEnd(t, p + 3, EnvChar)
             d == RunEnd(t, n + 2, NotClass({"}"}))
         IN  IF At(t, n) = "}" THEN n + 1
             ELSE IF Lit(t, n, <<":", "-">>) /\ At(t, d) = "}" THEN d + 1
             ELSE NoMatch
    ELSE NoMatch

\* SemverEnd written r"\d+\.\d+": two parts are enough
SemverEndTwoParts(t, p) ==
    LET a == Plus(t, p, Class(Digit))
        b == Plus(t, a + 1, Class(Digit))
    IN  IF a # NoMatch /\ At(t, a) = "." /\ b # NoMatch
        THEN b
        ELSE NoMatch

\* r"\d+\.\d+\.\d+"
SemverEnd(t, p) ==
    LET a == Plus(t, p, Class(Digit))
        b == Plus(t, a + 1, Class(Digit))
        c == Plus(t, b + 1, Class(Digit))
    IN  IF a # NoMatch /\ At(t, a) = "." /\ b # NoMatch /\ At(t, b) = "."
           /\ c # NoMatch
        THEN c
        ELSE NoMatch

\* r"\d+"
IntegerEnd(t, p) == Plus(t, p, Class(Digit))

\* r"\b(true|false)\b"
BooleanEnd(t, p) ==
    IF WordBoundary(t, p)
    THEN AltEnd(t, p, << <<"t", "r", "u", "e">>, <<"f", "a", "l", "s", "e">> >>,
                "\\b")
    ELSE NoMatch

\* r"[^\s\{\}\[\]\"'#:]+"
BlockTextEnd(t, p) ==
    Plus(t, p, NotClass(Space \cup {"{", "}", "[", "]", "\"", "'", "#", ":"}))

\* r"[^\]\s\"',#]+"
ListTextEnd(t, p) ==
    Plus(t, p, NotClass(Space \cup {"]", "\"", "'", ",", "#"}))

\* DoubleContentEnd written r'[^"$\n]+': string content stops at a newline
DoubleContentEndOneLine(t, p) == Plus(t, p, NotClass({"\"", "$", "\n"}))

\* r'[^"$]+'
DoubleContentEnd(t, p) == Plus(t, p, NotClass({"\"", "$"}))

\* r"[^'$]+"
SingleContentEnd(t, p) == Plus(t, p, NotClass({"'", "$"}))

\* r"\$(?!\{)"
LoneDollarEnd(t, p) ==
    IF At(t, p) = "$" /\ At(t, p + 1) # "{" THEN p + 1 ELSE NoMatch

\* r'"(?!"")'
LoneQuoteEnd(t, p) ==
    IF At(t, p) = "\"" /\ ~Lit(t, p + 1, <<"\"", "\"">>) THEN p + 1 ELSE NoMatch

(***************************************************************************)
(* Rule actions. A rule evaluated at the cursor is a record: the offset    *)
(* where its match ends (NoMatch when it does not match), the tokens its   *)
(* action yields, and its new_state ("" for none).                         *)
(***************************************************************************)

\* what the lexer yields: (index, tokentype, value)
Tok(start, kind, value) == [start |-> start, kind |-> kind, value |-> value]

\* a rule whose action is a token type: the whole match is one token
Token(t, p, e, kind, new_state) ==
    [end       |-> e,
     toks      |-> IF e = NoMatch THEN <<>> ELSE <<Tok(p, kind, Slice(t, p, e))>>,
     new_state |-> new_state]

\* a rule whose action is bygroups(kinds): one token per group, in group
\* order; a group that matched nothing yields none
bygroups(t, m, kinds, new_state) ==
    [end       |-> m.end,
     toks      |-> IF m.end = NoMatch THEN <<>>
                   ELSE SelectSeq(
                          [i \in 1..Len(kinds) |->
                             Tok(m.groups[i][1], kinds[i],
                                 Slice(t, m.groups[i][1], m.groups[i][2]))],
                          LAMBDA k : k.value # <<>>),
     new_state |-> new_state]

(***************************************************************************)
(* PromptScriptLexer.tokens: every rule, then each state's rules in        *)
(* declaration order.                                                      *)
(***************************************************************************)
\* tokens["root"]
RootComment(t, p) == Token(t, p, CommentEnd(t, p), "Comment.Single", "")

RootWhitespace(t, p) == Token(t, p, WhitespaceEnd(t, p), "Whitespace", "")

RootDeclaration(t, p) ==
    bygroups(t, DeclarationGroups(t, p),
             <<"Punctuation", "Keyword.Declaration">>, "")

\* RootInherit with a token type for the whole match instead of bygroups
RootInheritWhole(t, p) ==
    Token(t, p, InheritGroups(t, p).end, "Keyword.Namespace", "")

RootInherit(t, p) ==
    bygroups(t, InheritGroups(t, p),
             <<"Keyword.Namespace", "Whitespace", "String">>, "")

RootUse(t, p) ==
    bygroups(t, UseGroups(t, p),
             <<"Keyword.Namespace", "Whitespace", "String">>, "")

RootBlockOpen(t, p) ==
    Token(t, p, CharEnd(t, p, "{"), "Punctuation", "block")

RootListOpen(t, p) == Token(t, p, CharEnd(t, p, "["), "Punctuation", "list")

RootRules(t, p) ==
    << RootComment(t, p),
       RootWhitespace(t, p),
       RootDeclaration(t, p),
       RootInherit(t, p),
       RootUse(t, p),
       RootBlockOpen(t, p),
       RootListOpen(t, p) >>

\* tokens["block"]
BlockComment(t, p) == Token(t, p, CommentEnd(t, p), "Comment.Single", "")

BlockWhitespace(t, p) == Token(t, p, WhitespaceEnd(t, p), "Whitespace", "")

BlockDocstringOpen(t, p) ==
    Token(t, p, TripleQuoteEnd(t, p), "String.Doc", "docstring")

BlockListMarker(t, p) == Token(t, p, ListMarkerEnd(t, p), "Punctuation", "")

\* BlockKnownKey with a token type for the whole match instead of bygroups
BlockKnownKeyWhole(t, p) ==
    Token(t, p, KnownKeyGroups(t, p).end, "Name.Attribute", "")

BlockKnownKey(t, p) ==
    bygroups(t, KnownKeyGroups(t, p), <<"Name.Attribute", "Punctuation">>, "")

BlockLabel(t, p) ==
    bygroups(t, LabelGroups(t, p), <<"Name.Label", "Punctuation">>, "")

\* BlockNestedOpen with the state name "root" where "#push" is meant
BlockNestedOpenRoot(t, p) ==
    Token(t, p, CharEnd(t, p, "{"), "Punctuation", "root")

BlockNestedOpen(t, p) ==
    Token(t, p, CharEnd(t, p, "{"), "Punctuation", "#push")

\* BlockClose without its "#pop"
BlockCloseStay(t, p) == Token(t, p, CharEnd(t, p, "}"), "Punctuation", "")

BlockClose(t, p) == Token(t, p, CharEnd(t, p, "}"), "Punctuation", "#pop")

BlockListOpen(t, p) ==
    Token(t, p, CharEnd(t, p, "["), "Punctuation", "list")

\* BlockDoubleQuote entering the state of the other quote
BlockDoubleQuoteSingle(t, p) ==
    Token(t, p, CharEnd(t, p, "\""), "String.Double", "string_single")

BlockDoubleQuote(t, p) ==
    Token(t, p, CharEnd(t, p, "\""), "String.Double", "string_double")

BlockSingleQuote(t, p) ==
    Token(t, p, CharEnd(t, p, "'"), "String.Single", "string_single")

BlockEnvVar(t, p) == Token(t, p, EnvVarEnd(t, p), "Name.Variable", "")

BlockSemver(t, p) == Token(t, p, SemverEnd(t, p), "Number", "")

BlockInteger(t, p) == Token(t, p, IntegerEnd(t, p), "Number", "")

BlockBoolean(t, p) == Token(t, p, BooleanEnd(t, p), "Keyword.Constant", "")

BlockText(t, p) == Token(t, p, BlockTextEnd(t, p), "Text", "")

\* BlockRules with the generic label rule declared before the known keys
BlockRulesLabelFirst(t, p) ==
    << BlockComment(t, p),
       BlockWhitespace(t, p),
       BlockDocstringOpen(t, p),
       BlockListMarker(t, p),
       BlockLabel(t, p),
       BlockKnownKey(t, p),
       BlockNestedOpen(t, p),
       BlockClose(t, p),
       BlockListOpen(t, p),
       BlockDoubleQuote(t, p),
       BlockSingleQuote(t, p),
       BlockEnvVar(t, p),
       BlockSemver(t, p),
       BlockInteger(t, p),
       BlockBoolean(t, p),
       BlockText(t, p) >>

BlockRules(t, p) ==
    << BlockComment(t, p),
       BlockWhitespace(t, p),
       BlockDocstringOpen(t, p),
       BlockListMarker(t, p),
       BlockKnownKey(t, p),
       BlockLabel(t, p),
       BlockNestedOpen(t, p),
       BlockClose(t, p),
       BlockListOpen(t, p),
       BlockDoubleQuote(t, p),
       BlockSingleQuote(t, p),
       BlockEnvVar(t, p),
       BlockSemver(t, p),
       BlockInteger(t, p),
       BlockBoolean(t, p),
       BlockText(t, p) >>

\* tokens["list"]
ListComment(t, p) == Token(t, p, CommentEnd(t, p), "Comment.Single", "")

ListWhitespace(t, p) == Token(t, p, WhitespaceEnd(t, p), "Whitespace", "")

ListComma(t, p) == Token(t, p, CharEnd(t, p, ","), "Punctuation", "")

ListDoubleQuote(t, p) ==
    Token(t, p, CharEnd(t, p, "\""), "String.Double", "string_double")

ListSingleQuote(t, p) ==
    Token(t, p, CharEnd(t, p, "'"), "String.Single", "string_single")

ListClose(t, p) == Token(t, p, CharEnd(t, p, "]"), "Punctuation", "#pop")

\* ListText with a '[' that opens a nested list
ListTextNest(t, p) ==
    IF At(t, p) = "["
    THEN Token(t, p, p + 1, "Punctuation", "list")
    ELSE Token(t, p, ListTextEnd(t, p), "Text", "")

ListText(t, p) == Token(t, p, ListTextEnd(t, p), "Text", "")

ListRules(t, p) ==
    << ListComment(t, p),
       ListWhitespace(t, p),
       ListComma(t, p),
       ListDoubleQuote(t, p),
       ListSingleQuote(t, p),
       ListClose(t, p),
       ListText(t, p) >>

\* tokens["string_double"]
StringDoubleEnvVar(t, p) ==
    Token(t, p, EnvVarEnd(t, p), "Name.Variable", "")

StringDoubleClose(t, p) ==
    Token(t, p, CharEnd(t, p, "\""), "String.Double", "#pop")

StringDoubleContent(t, p) ==
    Token(t, p, DoubleContentEnd(t, p), "String.Double", "")

StringDoubleDollar(t, p) ==
    Token(t, p, LoneDollarEnd(t, p), "String.Double", "")

StringDoubleRules(t, p) ==
    << StringDoubleEnvVar(t, p),
       StringDoubleClose(t, p),
       StringDoubleContent(t, p),
       StringDoubleDollar(t, p) >>

\* tokens["string_single"]
StringSingleEnvVar(t, p) ==
    Token(t, p, EnvVarEnd(t, p), "Name.Variable", "")

\* StringSingleClose without its "#pop"
StringSingleCloseStay(t, p) ==
    Token(t, p, CharEnd(t, p, "'"), "String.Single", "")

StringSingleClose(t, p) ==
    Token(t, p, CharEnd(t, p, "'"), "String.Single", "#pop")

StringSingleContent(t, p) ==
    Token(t, p, SingleContentEnd(t, p), "String.Single", "")

StringSingleDollar(t, p) ==
    Token(t, p, LoneDollarEnd(t, p), "String.Single", "")

StringSingleRules(t, p) ==
    << StringSingleEnvVar(t, p),
       StringSingleClose(t, p),
       StringSingleContent(t, p),
       StringSingleDollar(t, p) >>

\* tokens["docstring"]
DocstringEnvVar(t, p) == Token(t, p, EnvVarEnd(t, p), "Name.Variable", "")

DocstringClose(t, p) ==
    Token(t, p, TripleQuoteEnd(t, p), "String.Doc", "#pop")

DocstringContent(t, p) ==
    Token(t, p, DoubleContentEnd(t, p), "String.Doc", "")

\* DocstringQuote ending the docstring at a single quote
DocstringQuotePop(t, p) ==
    Token(t, p, LoneQuoteEnd(t, p), "String.Doc", "#pop")

DocstringQuote(t, p) == Token(t, p, LoneQuoteEnd(t, p), "String.Doc", "")

DocstringDollar(t, p) == Token(t, p, LoneDollarEnd(t, p), "String.Doc", "")

DocstringRules(t, p) ==
    << DocstringEnvVar(t, p),
       DocstringClose(t, p),
       DocstringContent(t, p),
       DocstringQuote(t, p),
       DocstringDollar(t, p) >>

States == {"root", "block", "list", "string_double", "string_single",
           "docstring"}

\* tokens[state], evaluated at offset p of t
Rules(state, t, p) ==
    CASE state = "root"          -> RootRules(t, p)
      [] state = "block"         -> BlockRules(t, p)
      [] state = "list"          -> ListRules(t, p)
      [] state = "string_double" -> StringDoubleRules(t, p)
      [] state = "string_single" -> StringSingleRules(t, p)
      [] state = "docstring"     -> DocstringRules(t, p)

(***************************************************************************)
(* The RegexLexer loop (get_tokens_unprocessed) that PromptScriptLexer     *)
(* inherits, run on the rule table above.                                  *)
(***************************************************************************)

\* the indices of the rules, evaluated at the cursor, that match
Matching(rules) == {i \in 1..Len(rules) : rules[i].end # NoMatch}

\* the first rule that matches: declaration order decides, not length
FirstMatch(rules) == rules[Min(Matching(rules))]

Top(stack) == stack[Len(stack)]

\* the state stack after a rule with this new_state has matched: a state
\* name pushes it, "#push" pushes the top again, "#pop" drops the top and
\* keeps at least one state on the stack
Transition(stack, new_state) ==
    CASE new_state = ""      -> stack
      [] new_state = "#pop"  -> IF Len(stack) <= 1
                                THEN SubSeq(stack, 1, 1)
                                ELSE SubSeq(stack, 1, Len(stack) - 1)
      [] new_state = "#push" -> Append(stack, Top(stack))
      [] OTHER               -> Append(stack, new_state)

(***************************************************************************)
(* The texts tokenized: the documented examples, and every text of at most *)
(* MaxLen characters over Alphabet.                                        *)
(***************************************************************************)
\* @meta { id: "x" }
MetaBlockText ==
    <<"@", "m", "e", "t", "a", " ", "{", " ", "i", "d", ":", " ", "\"",
      "x", "\"", " ", "}">>

\* "${HOME}/bin"
HomeBinText ==
    <<"\"", "$", "{", "H", "O", "M", "E", "}", "/", "b", "i", "n", "\"">>

\* "abc
UnclosedQuoteText ==
    <<"\"", "a", "b", "c">>

\* {"${HOME}/bin"}
BlockHomeBinText ==
    <<"{", "\"", "$", "{", "H", "O", "M", "E", "}", "/", "b", "i", "n",
      "\"", "}">>

\* {"abc
BlockUnclosedQuoteText ==
    <<"{", "\"", "a", "b", "c">>

\* { a: { b: 1 } }
NestedBlocksText ==
    <<"{", " ", "a", ":", " ", "{", " ", "b", ":", " ", "1", " ", "}",
      " ", "}">>

\* { name : 1 }
SpacedKeyText ==
    <<"{", " ", "n", "a", "m", "e", " ", ":", " ", "1", " ", "}">>

\* [[]"{"]
NestedListText ==
    <<"[", "[", "]", "\"", "{", "\"", "]">>

\* @inherit path/to/dep@1.0.0
InheritBareText ==
    <<"@", "i", "n", "h", "e", "r", "i", "t", " ", "p", "a", "t", "h", "/",
      "t", "o", "/", "d", "e", "p", "@", "1", ".", "0", ".", "0">>

\* @inherit @path/to/dep@1.0.0
InheritScopedText ==
    <<"@", "i", "n", "h", "e", "r", "i", "t", " ", "@", "p", "a", "t", "h",
      "/", "t", "o", "/", "d", "e", "p", "@", "1", ".", "0", ".", "0">>

\* {id: identity: id-x: a:}
KeysText ==
    <<"{", "i", "d", ":", " ", "i", "d", "e", "n", "t", "i", "t", "y", ":",
      " ", "i", "d", "-", "x", ":", " ", "a", ":", "}">>

\* {v: 1.2.3 10.20 7}
NumbersText ==
    <<"{", "v", ":", " ", "1", ".", "2", ".", "3", " ", "1", "0", ".", "2",
      "0", " ", "7", "}">>

\* ["{}[]#'${A}"]
StringBracketsText ==
    <<"[", "\"", "{", "}", "[", "]", "#", "'", "$", "{", "A", "}", "\"",
      "]">>

\* {'[{"#]}'}
SingleBracketsText ==
    <<"{", "'", "[", "{", "\"", "#", "]", "}", "'", "}">>

\* {"""a "b" c""""}
DocstringQuotesText ==
    <<"{", "\"", "\"", "\"", "a", " ", "\"", "b", "\"", " ", "c", "\"",
      "\"", "\"", "\"", "}">>

\* {"""${A:-"""}"""}
DocstringDefaultText ==
    <<"{", "\"", "\"", "\"", "$", "{", "A", ":", "-", "\"", "\"", "\"",
      "}", "\"", "\"", "\"", "}">>

\* {"${a}"}
LowerInterpolationText ==
    <<"{", "\"", "$", "{", "a", "}", "\"", "}">>

\* {{"""a"""[[{'
DeepText ==
    <<"{", "{", "\"", "\"", "\"", "a", "\"", "\"", "\"", "[", "[", "{",
      "'">>

Examples ==
    {MetaBlockText,
     HomeBinText,
     UnclosedQuoteText,
     BlockHomeBinText,
     BlockUnclosedQuoteText,
     NestedBlocksText,
     SpacedKeyText,
     NestedListText,
     InheritBareText,
     InheritScopedText,
     KeysText,
     NumbersText,
     StringBracketsText,
     SingleBracketsText,
     DocstringQuotesText,
     DocstringDefaultText,
     LowerInterpolationText,
     DeepText}

Alphabet ==
    {"{", "}", "[", "]", "\"", "'", "$", "#", ":", " ", "\n", "a", "1", "-",
     ","}

MaxLen == 3

BoundedTexts == UNION {[1..n -> Alphabet] : n \in 0..MaxLen}

Inputs == Examples \cup BoundedTexts

\* get_tokens_unprocessed(text): pos = 0, statestack = ['root']
Init ==
    /\ text \in Inputs
    /\ pos = 0
    /\ statestack = <<"root">>
    /\ tokens = <<>>
    /\ pc = "lexing"
    /\ calls = <<>>
    /\ docs_version = ""
    /\ html = <<>>
    /\ hook = "idle"

\* a rule of the active state matches at pos: yield its tokens, move to the
\* end of the match, apply its new_state
RuleMatch ==
    /\ pc = "lexing"
    /\ \E rules \in {Rules(Top(statestack), text, pos)} :
          /\ Matching(rules) # {}
          /\ \E m \in {FirstMatch(rules)} :
                /\ tokens' = tokens \o m.toks
                /\ pos' = m.end
                /\ statestack' = Transition(statestack, m.new_state)
    /\ UNCHANGED <<text, pc, calls, hooks>>

\* no rule matches and a character is left: a newline resets the stack to
\* ['root'] and is yielded as Whitespace, any other character is yielded
\* as Error; either way pos moves by one
NoRuleMatch ==
    /\ pc = "lexing"
    /\ \A rules \in {Rules(Top(statestack), text, pos)} : Matching(rules) = {}
    /\ pos < Len(text)
    /\ IF At(text, pos) = "\n"
       THEN /\ statestack' = <<"root">>
            /\ tokens' = Append(tokens, Tok(pos, "Whitespace", <<"\n">>))
       ELSE /\ statestack' = statestack
            /\ tokens' = Append(tokens, Tok(pos, "Error", <<At(text, pos)>>))
    /\ pos' = pos + 1
    /\ UNCHANGED <<text, pc, calls, hooks>>

\* EndOfText raising when a state is left open instead of just ending
EndOfTextRaising ==
    /\ pc = "lexing"
    /\ \A rules \in {Rules(Top(statestack), text, pos)} : Matching(rules) = {}
    /\ pos >= Len(text)
    /\ pc' = IF Len(statestack) > 1 THEN "UnterminatedStateError" ELSE "done"
    /\ UNCHANGED <<text, pos, statestack, tokens, calls, hooks>>

\* no rule matches and no character is left (text[pos] raises IndexError):
\* the loop breaks and the token stream ends
EndOfText ==
    /\ pc = "lexing"
    /\ \A rules \in {Rules(Top(statestack), text, pos)} : Matching(rules) = {}
    /\ pos >= Len(text)
    /\ pc' = "done"
    /\ UNCHANGED <<text, pos, statestack, tokens, calls, hooks>>

Next == RuleMatch \/ NoRuleMatch \/ EndOfText

Spec == Init /\ [][Next]_vars

\* the loop is a plain sequential loop: it keeps running until it breaks
FairSpec == Spec /\ WF_vars(Next)

(***************************************************************************)
(* format_promptscript called several times side by side (one call per     *)
(* fenced block of a documentation build). Each call creates its own       *)
(* PromptScriptLexer and runs highlight() on its source: get_tokens()      *)
(* prepares the text (stripnl strips the newlines at both ends, ensurenl   *)
(* appends one), then the loop above runs with pos and statestack local to *)
(* the call. A call is a record; calls maps each call to its record.       *)
(***************************************************************************)
NumCalls == 2

CallIds == 1..NumCalls

\* {"a
OpenStringSource == <<"{", "\"", "a">>

\* [1]
ListSource == <<"[", "1", "]">>

\* }{ followed by an empty line
StrayCloseSource == <<"}", "{", "\n">>

\* the sources the calls are given
CallSources ==
    {OpenStringSource, ListSource, StrayCloseSource}

\* text.strip("\n")
StripNewlines(t) ==
    LET kept == {i \in 1..Len(t) : t[i] # "\n"}
    IN  IF kept = {} THEN <<>>
        ELSE SubSeq(t, Min(kept), CHOOSE b \in kept : \A i \in kept : i <= b)

\* what get_tokens() hands to the loop: stripnl, then ensurenl
Preprocess(source) == Append(StripNewlines(source), "\n")

\* a call that has been made and has not started
NewCall(source) ==
    [source |-> source, text |-> <<>>, pos |-> 0, statestack |-> <<"root">>,
     tokens |-> <<>>, pc |-> "new"]

\* one turn of the loop of the call c, as RuleMatch, NoRuleMatch and
\* EndOfText do it on the variables of a single tokenization
StepOf(c) ==
    LET rules == Rules(Top(c.statestack), c.text, c.pos)
        m     == FirstMatch(rules)
        ch    == At(c.text, c.pos)
    IN  IF Matching(rules) # {}
        THEN [c EXCEPT !.tokens = @ \o m.toks,
                       !.pos = m.end,
                       !.statestack = Transition(@, m.new_state)]
        ELSE IF c.pos < Len(c.text)
        THEN [c EXCEPT !.tokens =
                           Append(@, Tok(c.pos,
                                         IF ch = "\n" THEN "Whitespace"
                                                      ELSE "Error",
                                         <<ch>>)),
                       !.statestack = IF ch = "\n" THEN <<"root">> ELSE @,
                       !.pos = @ + 1]
        ELSE [c EXCEPT !.pc = "done"]

\* CallAfter with the state stack kept on the class: the step of one call
\* sets the stack every call sees
CallAfterSharedStack(cs, i, c) ==
    [j \in DOMAIN cs |->
        IF j = i THEN c ELSE [cs[j] EXCEPT !.statestack = c.statestack]]

\* the calls after call i has moved to c: pos, statestack and the lexer
\* are locals of the call, so no other call changes
CallAfter(cs, i, c) == [cs EXCEPT ![i] = c]

CallsInit ==
    /\ calls \in [CallIds -> {NewCall(source) : source \in CallSources}]
    /\ text = <<>>
    /\ pos = 0
    /\ statestack = <<"root">>
    /\ tokens = <<>>
    /\ pc = "idle"
    /\ docs_version = ""
    /\ html = <<>>
    /\ hook = "idle"

\* lexer = PromptScriptLexer(); highlight(source, lexer, formatter) starts
\* get_tokens(source)
FormatStart(i) ==
    /\ calls[i].pc = "new"
    /\ calls' = CallAfter(calls, i,
                          [calls[i] EXCEPT
                              !.text = Preprocess(calls[i].source),
                              !.pc = "lexing"])
    /\ UNCHANGED <<lexing, hooks>>

CallRuleMatch(i) ==
    /\ calls[i].pc = "lexing"
    /\ Matching(Rules(Top(calls[i].statestack), calls[i].text, calls[i].pos))
          # {}
    /\ calls' = CallAfter(calls, i, StepOf(calls[i]))
    /\ UNCHANGED <<lexing, hooks>>

CallNoRuleMatch(i) ==
    /\ calls[i].pc = "lexing"
    /\ Matching(Rules(Top(calls[i].statestack), calls[i].text, calls[i].pos))
          = {}
    /\ calls[i].pos < Len(calls[i].text)
    /\ calls' = CallAfter(calls, i, StepOf(calls[i]))
    /\ UNCHANGED <<lexing, hooks>>

CallEndOfText(i) ==
    /\ calls[i].pc = "lexing"
    /\ Matching(Rules(Top(calls[i].statestack), calls[i].text, calls[i].pos))
          = {}
    /\ calls[i].pos >= Len(calls[i].text)
    /\ calls' = CallAfter(calls, i, StepOf(calls[i]))
    /\ UNCHANGED <<lexing, hooks>>

\* the consumer of the token stream of call i stops before its end
Abandon(i) ==
    /\ calls[i].pc = "lexing"
    /\ calls' = CallAfter(calls, i, [calls[i] EXCEPT !.pc = "abandoned"])
    /\ UNCHANGED <<lexing, hooks>>

CallsNext ==
    \E i \in CallIds :
        \/ FormatStart(i)
        \/ CallRuleMatch(i)
        \/ CallNoRuleMatch(i)
        \/ CallEndOfText(i)
        \/ Abandon(i)

CallsSpec == CallsInit /\ [][CallsNext]_vars

(***************************************************************************)
(* mkdocs_hooks.py: on_page_content and on_post_page, run in this order on *)
(* a page, rewrite the playground links when DOCS_VERSION is "dev".        *)
(***************************************************************************)
\* https://getpromptscript.dev
Site ==
    <<"h", "t", "t", "p", "s", ":", "/", "/", "g", "e", "t", "p", "r", "o",
      "m", "p", "t", "s", "c", "r", "i", "p", "t", ".", "d", "e", "v">>

\* href="
HrefQuoted == <<"h", "r", "e", "f", "=", "\"">>

\* href=
HrefUnquoted == <<"h", "r", "e", "f", "=">>

\* PlaygroundPath without its last '/'
PlaygroundNoSlash ==
    <<"/", "p", "l", "a", "y", "g", "r", "o", "u", "n", "d">>

\* /playground/
PlaygroundPath ==
    <<"/", "p", "l", "a", "y", "g", "r", "o", "u", "n", "d", "/">>

\* /playground-dev/
PlaygroundDevPath ==
    <<"/", "p", "l", "a", "y", "g", "r", "o", "u", "n", "d", "-", "d", "e",
      "v", "/">>

\* whether the pattern  (prefix)/playground/  , with the lookahead (?!dev)
\* when guarded, matches at offset q of t
LinkAt(t, q, prefix, guarded) ==
    /\ Lit(t, q, prefix \o PlaygroundPath)
    /\ ~(guarded /\ Lit(t, q + Len(prefix \o PlaygroundPath),
                        <<"d", "e", "v">>))

RECURSIVE ReSub(_, _, _, _)
\* re.sub of that pattern by  \1/playground-dev/  in t from offset p on:
\* the leftmost match from p is replaced, what stands before it is copied,
\* and the search goes on where the match ended
ReSub(t, p, prefix, guarded) ==
    LET found == {q \in p..Len(t) : LinkAt(t, q, prefix, guarded)}
    IN  IF found = {} THEN Slice(t, p, Len(t))
        ELSE Slice(t, p, Min(found)) \o prefix \o PlaygroundDevPath
               \o ReSub(t, Min(found) + Len(prefix \o PlaygroundPath),
                        prefix, guarded)

\* _replace_playground_urls(html): full URLs, then quoted relative URLs,
\* then unquoted relative URLs
replace_playground_urls(page) ==
    LET full   == ReSub(page, 0, Site, FALSE)
        quoted == ReSub(full, 0, HrefQuoted, TRUE)
    IN  ReSub(quoted, 0, HrefUnquoted, TRUE)

\* the values DOCS_VERSION is given ("" when it is not set)
DocsVersions == {"dev", "", "latest"}

\* the pieces the pages are made of
Segments ==
    {Site, HrefUnquoted, <<"\"">>, PlaygroundPath, PlaygroundNoSlash,
     <<"-", "d", "e", "v">>, <<"/">>, <<"d", "e", "v">>, <<"x">>}

MaxSegments == 3

RECURSIVE Flatten(_)
Flatten(pieces) ==
    IF pieces = <<>> THEN <<>> ELSE Head(pieces) \o Flatten(Tail(pieces))

\* a page with the three forms of the link: the full URL, the quoted and
\* the unquoted relative URL
ThreeLinksPage ==
    Site \o PlaygroundPath \o <<"x">> \o HrefQuoted \o PlaygroundPath
         \o <<"\"", "x">> \o HrefUnquoted \o PlaygroundPath

\* ThreeLinksPage with its three links rewritten
ThreeLinksDevPage ==
    Site \o PlaygroundDevPath \o <<"x">> \o HrefQuoted \o PlaygroundDevPath
         \o <<"\"", "x">> \o HrefUnquoted \o PlaygroundDevPath

\* a quoted link into the playground that the lookahead leaves alone,
\* after one that it rewrites
GuardedLinkPage ==
    HrefQuoted \o PlaygroundPath \o <<"\"">> \o HrefQuoted \o PlaygroundPath
               \o <<"d", "e", "v", "\"">>

Pages ==
    {ThreeLinksPage, ThreeLinksDevPage, GuardedLinkPage}
        \cup {Flatten(pieces) :
                 pieces \in UNION {[1..n -> Segments] : n \in 0..MaxSegments}}

HooksInit ==
    /\ docs_version \in DocsVersions
    /\ html \in Pages
    /\ hook = "rendered"
    /\ text = <<>>
    /\ pos = 0
    /\ statestack = <<"root">>
    /\ tokens = <<>>
    /\ pc = "idle"
    /\ calls = <<>>

on_page_content ==
    /\ hook = "rendered"
    /\ html' = IF docs_version = "dev"
               THEN replace_playground_urls(html)
               ELSE html
    /\ hook' = "content"
    /\ UNCHANGED <<docs_version, lexing, calls>>

\* the page that on_page_content returned is passed on as the output
on_post_page ==
    /\ hook = "content"
    /\ html' = IF docs_version = "dev"
               THEN replace_playground_urls(html)
               ELSE html
    /\ hook' = "post"
    /\ UNCHANGED <<docs_version, lexing, calls>>

HooksNext == on_page_content \/ on_post_page

HooksSpec == HooksInit /\ [][HooksNext]_vars

(***************************************************************************)
(* Properties.                                                             *)
(***************************************************************************)

\* where a token ends
TokEnd(k) == k.start + Len(k.value)

Last(s) == s[Len(s)]

RECURSIVE Concat(_)
\* the texts of the tokens, concatenated in emission order
Concat(toks) ==
    IF toks = <<>> THEN <<>> ELSE Head(toks).value \o Concat(Tail(toks))

\* the tokens cover t from offset 0 to e with no gap and no overlap
Covers(toks, t, e) ==
    /\ \A i \in 1..Len(toks) :
          toks[i].start = IF i = 1 THEN 0 ELSE TokEnd(toks[i - 1])
    /\ (IF toks = <<>> THEN 0 ELSE TokEnd(Last(toks))) = e
    /\ Concat(toks) = Slice(t, 0, e)

\* C1: when tokenization has ended, the tokens in emission order cover the
\* text with no gaps and no overlaps (the first starts at 0, each starts
\* where the previous one ended, the last ends at the length of the text)
\* and their concatenated texts are the text.
C1_Lossless == pc = "done" => Covers(tokens, text, Len(text))

\* C2: at every cursor position reached, no rule of any of the six states
\* matches a zero-length span, and every step that keeps the engine
\* running (a rule match or the no-match fallback) moves the cursor
\* strictly forward.
C2_Progress ==
    [][/\ \A s \in States : \A rules \in {Rules(s, text, pos)} :
             \A i \in Matching(rules) : rules[i].end > pos
       /\ pc' = "lexing" => pos' > pos]_vars

\* a rule match and a fallback have both moved the cursor, inside a block
C2_Witness ==
    /\ Len(statestack) > 1
    /\ \E i, j \in 1..Len(tokens) :
          tokens[i].kind = "Error" /\ tokens[j].kind = "Punctuation"

\* C3: for every text tokenization terminates: eventually the loop has
\* ended with the cursor at the end of the text.
C3_Terminates == <>(pc = "done" /\ pos = Len(text))

\* tokenization has ended after rule matches, fallbacks, a push and a pop
C3_Witness ==
    /\ pc = "done"
    /\ \E i, j, k \in 1..Len(tokens) :
          /\ tokens[i].kind = "Error"
          /\ tokens[j].value = <<"{">> /\ tokens[j].kind = "Punctuation"
          /\ tokens[k].value = <<"}">> /\ tokens[k].kind = "Punctuation"

\* the stack is not empty, root is its bottom frame and only its bottom
StackRooted(stack) ==
    /\ Len(stack) >= 1
    /\ stack[1] = "root"
    /\ \A i \in 2..Len(stack) : stack[i] # "root"

\* C4: after any steps the state stack is non-empty with root as its
\* bottom frame, root is never popped (it stays the bottom and is nowhere
\* else), and a step taken at a '}', ']' or quote while root is active
\* leaves the stack equal to [root].
C4_RootNeverPopped ==
    [][/\ StackRooted(statestack)
       /\ StackRooted(statestack')
       /\ (Top(statestack) = "root" /\ At(text, pos) \in {"}", "]", "\"", "'"})
             => statestack' = <<"root">>]_vars

\* a stray '}' was met in root after a block had been opened and closed
C4_Witness ==
    /\ statestack = <<"root">>
    /\ \E i, j \in 1..Len(tokens) :
          /\ i < j
          /\ tokens[i].value = <<"}">> /\ tokens[i].kind = "Punctuation"
          /\ tokens[j].value = <<"}">> /\ tokens[j].kind = "Error"

RECURSIVE Matched(_, _, _, _)
\* whether t from index i on is correctly matched, given the closers still
\* owed (innermost last) and the quote that is open ("" for none). Inside
\* quotes every character is literal; outside, '#' starts a comment that
\* runs to the end of the line, '{' and '[' open, '}' and ']' must close
\* the innermost open bracket.
Matched(t, i, owed, quote) ==
    IF i > Len(t) THEN owed = <<>> /\ quote = ""
    ELSE IF quote # ""
         THEN Matched(t, i + 1, owed, IF t[i] = quote THEN "" ELSE quote)
    ELSE IF t[i] = "#"
         THEN Matched(t, RunEnd(t, i, NotClass({"\n"})) + 1, owed, "")
    ELSE IF t[i] \in {"\"", "'"} THEN Matched(t, i + 1, owed, t[i])
    ELSE IF t[i] = "{" THEN Matched(t, i + 1, Append(owed, "}"), "")
    ELSE IF t[i] = "[" THEN Matched(t, i + 1, Append(owed, "]"), "")
    ELSE IF t[i] \in {"}", "]"}
         THEN /\ owed # <<>>
              /\ Last(owed) = t[i]
              /\ Matched(t, i + 1, SubSeq(owed, 1, Len(owed) - 1), "")
    ELSE Matched(t, i + 1, owed, "")

\* the text's '{'/'}', '['/']' and quotes are correctly matched
Balanced(t) == Matched(t, 1, <<>>, "")

\* C5: for a text whose brackets and quotes are correctly matched, the
\* state stack is exactly [root] when tokenization has ended.
C5_Balance == (pc = "done" /\ Balanced(text)) => statestack = <<"root">>

Unmatched ==
    /\ pc = "lexing"
    /\ \A rules \in {Rules(Top(statestack), text, pos)} : Matching(rules) = {}
    /\ pos < Len(text)

Kinds(toks) == [i \in 1..Len(toks) |-> toks[i].kind]

\* the texts of the tokens, in emission order
Values(toks) == [i \in 1..Len(toks) |-> toks[i].value]

\* C9 as stated: @meta { id: "x" } yields exactly eleven tokens, the string
\* "x" being one of them.
C9_MetaElevenTokens ==
    (text = MetaBlockText /\ pc = "done")
        => /\ Kinds(tokens) =
                <<"Punctuation", "Keyword.Declaration", "Whitespace",
                  "Punctuation", "Whitespace", "Name.Attribute", "Punctuation",
                  "Whitespace", "String.Double", "Whitespace", "Punctuation">>
           /\ tokens[9].value = <<"\"", "x", "\"">>

\* C9 as amended: @meta { id: "x" } yields exactly thirteen tokens:
\* punctuation '@', declaration keyword 'meta', whitespace, punctuation
\* '{', whitespace, attribute name 'id', punctuation ':', whitespace, then
\* the string as three string tokens (the opening quote, x, the closing
\* quote), whitespace, punctuation '}'.
C9_MetaTokens ==
    (text = MetaBlockText /\ pc = "done")
        => /\ Kinds(tokens) =
                <<"Punctuation", "Keyword.Declaration", "Whitespace",
                  "Punctuation", "Whitespace", "Name.Attribute", "Punctuation",
                  "Whitespace", "String.Double", "String.Double",
                  "String.Double", "Whitespace", "Punctuation">>
           /\ Values(tokens) =
                << <<"@">>, <<"m", "e", "t", "a">>, <<" ">>, <<"{">>, <<" ">>,
                   <<"i", "d">>, <<":">>, <<" ">>, <<"\"">>, <<"x">>, <<"\"">>,
                   <<" ">>, <<"}">> >>

\* @meta { id: "x" } has been tokenized to its end
C9_Witness == text = MetaBlockText /\ pc = "done" /\ statestack = <<"root">>

StringKinds == {"String", "String.Double", "String.Single", "String.Doc"}

\* token i is the interpolation ${HOME}, between two string tokens of which
\* the second is /bin
HomeInterpolationAt(toks, i) ==
    /\ toks[i].kind = "Name.Variable"
    /\ toks[i].value = <<"$", "{", "H", "O", "M", "E", "}">>
    /\ toks[i - 1].kind \in StringKinds
    /\ toks[i + 1].kind \in StringKinds
    /\ toks[i + 1].value = <<"/", "b", "i", "n">>

\* C10 as stated: "${HOME}/bin" yields one interpolation token ${HOME}
\* with string tokens on both sides, the one after it being /bin.
C10_HomeInterpolation ==
    (text = HomeBinText /\ pc = "done")
        => \E i \in 2..(Len(tokens) - 1) : HomeInterpolationAt(tokens, i)

\* C10 as amended: where a string can open (inside a block, as in
\* {"${HOME}/bin"}) ${HOME} is one interpolation token, not split, with
\* string tokens on both sides (the opening quote before it, /bin after
\* it); tokenized from the initial state, "${HOME}/bin" yields no
\* interpolation token at all, root having no string rule.
C10_BlockHomeInterpolation ==
    /\ (text = BlockHomeBinText /\ pc = "done")
          => /\ \E i \in 2..(Len(tokens) - 1) : HomeInterpolationAt(tokens, i)
             /\ Len(tokens) = 6
    /\ (text = HomeBinText /\ pc = "done")
          => \A i \in 1..Len(tokens) : tokens[i].kind # "Name.Variable"

\* {"${HOME}/bin"} has been tokenized to its end, with its interpolation
C10_Witness ==
    /\ text = BlockHomeBinText
    /\ pc = "done"
    /\ \E i \in 1..Len(tokens) : tokens[i].kind = "Name.Variable"

\* the three tokens of an inherit statement: the keyword, the whitespace,
\* the path
InheritTokens(t) ==
    << Tok(0, "Keyword.Namespace", Slice(t, 0, 8)),
       Tok(8, "Whitespace", Slice(t, 8, 9)),
       Tok(9, "String", Slice(t, 9, Len(t))) >>

Depth(stack) == Len(stack) - 1

\* the number of frames above root expected in { a: { b: 1 } } with the
\* cursor at offset p: 1 after the outer '{' (offset 0), 2 after the inner
\* '{' (offset 5), 1 after the inner '}' (offset 12), 0 after the outer '}'
\* (offset 14)
NestedBlocksDepth(p) ==
    IF p <= 0 THEN 0
    ELSE IF p <= 5 THEN 1
    ELSE IF p <= 12 THEN 2
    ELSE IF p <= 14 THEN 1
    ELSE 0

\* C12: with block the active state, a step at '{' pushes exactly one block
\* frame and a step at '}' pops exactly one frame; throughout
\* { a: { b: 1 } } the number of frames above root is 1 after the outer
\* '{', 2 after the inner '{', 1 after the inner '}' and 0 after the outer
\* '}'.
C12_NestedBlocks ==
    [][/\ (pc = "lexing" /\ Top(statestack) = "block" /\ At(text, pos) = "{")
             => statestack' = Append(statestack, "block")
       /\ (pc = "lexing" /\ Top(statestack) = "block" /\ At(text, pos) = "}")
             => statestack' = SubSeq(statestack, 1, Len(statestack) - 1)
       /\ text = NestedBlocksText
             => /\ Depth(statestack) = NestedBlocksDepth(pos)
                /\ Depth(statestack') = NestedBlocksDepth(pos')]_vars

\* { a: { b: 1 } } has been tokenized to its end: both blocks were opened
\* and closed
C12_Witness ==
    /\ text = NestedBlocksText
    /\ pc = "done"
    /\ statestack = <<"root">>
    /\ Len(SelectSeq(tokens, LAMBDA k : k.value = <<"}">>)) = 2

RECURSIVE AloneAfter(_, _)
\* the call c after n more turns of the loop with no other call around
AloneAfter(c, n) ==
    IF n = 0 \/ c.pc # "lexing" THEN c ELSE AloneAfter(StepOf(c), n - 1)

\* the call of source run alone, just started
AloneStart(source) ==
    [NewCall(source) EXCEPT !.text = Preprocess(source), !.pc = "lexing"]

\* the call of source run alone to its end: at most one turn per character
\* and the turn that ends the loop
AloneResult(source) ==
    AloneAfter(AloneStart(source), Len(Preprocess(source)) + 1)

\* the call c is where some number of turns takes its source run alone; an
\* abandoned call stopped at such a point
OnOwnCourse(c) ==
    \E n \in 0..(Len(c.text) + 1) :
        \E alone \in {AloneAfter(AloneStart(c.source), n)} :
            IF c.pc = "abandoned"
            THEN [c EXCEPT !.pc = "lexing"] = alone
            ELSE c = alone

\* C13: however the steps of the calls interleave, every started call is
\* at a point of the run of its own source alone, a call that has ended
\* holds exactly the tokens of that run, and a step of one call (its
\* abandonment included) leaves every other call as it was.
C13_CallsIndependent ==
    [][/\ \A i \in CallIds :
             /\ calls[i].pc # "new" => OnOwnCourse(calls[i])
             /\ calls'[i].pc # "new" => OnOwnCourse(calls'[i])
             /\ calls'[i].pc = "done"
                   => calls'[i].tokens = AloneResult(calls[i].source).tokens
       /\ \E i \in CallIds : \A j \in CallIds \ {i} : calls'[j] = calls[j]]_vars

\* one call was abandoned in the middle of its text, inside a block, and
\* another has ended with tokens after steps of both
C13_Witness ==
    \E i, j \in CallIds :
        /\ calls[i].pc = "abandoned"
        /\ calls[i].pos > 0
        /\ Len(calls[i].statestack) > 1
        /\ calls[j].pc = "done"
        /\ Len(calls[j].tokens) > 1

\* the fixed known keys, as a set
KnownKeySet == {KnownKeys[i] : i \in 1..Len(KnownKeys)}

\* an identifier (a run of word characters and '-') stands at offset p of
\* t, followed by optional whitespace and ':', and is not a list marker
KeyAt(t, p) ==
    /\ LabelGroups(t, p) # NoGroups
    /\ ListMarkerEnd(t, p) = NoMatch

\* the kind the key at offset p of t is to have
KeyKind(t, p) ==
    IF Slice(t, p, RunEnd(t, p, LabelChar)) \in KnownKeySet
    THEN "Name.Attribute"
    ELSE "Name.Label"

\* C14: with block the active state and an identifier followed by optional
\* whitespace and ':' at the cursor, the step emits the identifier as
\* attribute-name exactly when the whole identifier is one of the known
\* keys and as a generic label otherwise (identity, id-x), then the ':' as
\* punctuation.
C14_KeyKinds ==
    [][(pc = "lexing" /\ Top(statestack) = "block" /\ KeyAt(text, pos))
          => \E e \in {RunEnd(text, pos, LabelChar)} :
                /\ tokens' = tokens \o
                      << Tok(pos, KeyKind(text, pos), Slice(text, pos, e)),
                         Tok(pos' - 1, "Punctuation", <<":">>) >>
                /\ At(text, pos' - 1) = ":"
                /\ statestack' = statestack]_vars

\* {id: identity: id-x: a:} has been tokenized: id is an attribute name,
\* identity and id-x are labels
C14_Witness ==
    /\ text = KeysText
    /\ pc = "done"
    /\ \E i, j, k \in 1..Len(tokens) :
          /\ tokens[i] = Tok(1, "Name.Attribute", <<"i", "d">>)
          /\ tokens[j].kind = "Name.Label"
          /\ tokens[j].value = <<"i", "d", "e", "n", "t", "i", "t", "y">>
          /\ tokens[k].kind = "Name.Label"
          /\ tokens[k].value = <<"i", "d", "-", "x">>

\* w is digits '.' digits '.' digits
IsSemver(w) ==
    \E i, j \in 2..(Len(w) - 1) :
        /\ i + 1 < j
        /\ \A k \in 1..Len(w) :
              IF k \in {i, j} THEN w[k] = "." ELSE w[k] \in Digit

\* the offsets where a value of the semver form that starts at p ends
SemverEnds(t, p) == {e \in (p + 5)..Len(t) : IsSemver(Slice(t, p, e))}

\* the largest offset of a non-empty set of offsets
Max(S) == CHOOSE m \in S : \A n \in S : n <= m

\* a digit stands at offset p of t and does not start a key (an identifier
\* followed by optional whitespace and ':')
NumberAt(t, p) == At(t, p) \in Digit /\ LabelGroups(t, p) = NoGroups

\* C15: with block the active state and a number (a digit run that is not
\* a key) at the cursor, the step emits one number token: the whole value
\* when it has the form digits '.' digits '.' digits, and otherwise exactly
\* the digit run; the state stack is unchanged. In { a: { b: 1 } } the 1
\* is the number token 1.
C15_SemverBeforeInteger ==
    [][/\ (pc = "lexing" /\ Top(statestack) = "block" /\ NumberAt(text, pos))
             => /\ tokens' = Append(tokens,
                     Tok(pos, "Number",
                         Slice(text, pos,
                               IF SemverEnds(text, pos) # {}
                               THEN Max(SemverEnds(text, pos))
                               ELSE RunEnd(text, pos, Class(Digit)))))
                /\ statestack' = statestack
       /\ (text = NestedBlocksText /\ pos = 10)
             => tokens' = Append(tokens, Tok(10, "Number", <<"1">>))]_vars

\* {v: 1.2.3 10.20 7} has been tokenized: 1.2.3 is one number token, 10
\* and 7 are number tokens, .20 is text
C15_Witness ==
    /\ text = NumbersText
    /\ pc = "done"
    /\ \E i, j, k \in 1..Len(tokens) :
          /\ tokens[i] = Tok(4, "Number", <<"1", ".", "2", ".", "3">>)
          /\ tokens[j] = Tok(10, "Number", <<"1", "0">>)
          /\ tokens[k] = Tok(16, "Number", <<"7">>)

\* the quote that closes the string state
ClosingQuote(state) == IF state = "string_double" THEN "\"" ELSE "'"

\* C16: with string_double (string_single) the active state, a step at the
\* matching closing quote pops exactly that frame and uncovers the block
\* or list that opened the string, and every other step ('{', '}', '[',
\* ']', '#', the other quote, ${...}, any other text) leaves the state
\* stack unchanged.
C16_OnlyClosingQuotePops ==
    [][(pc = "lexing" /\ Top(statestack) \in {"string_double", "string_single"})
          => IF At(text, pos) = ClosingQuote(Top(statestack))
             THEN /\ statestack' = SubSeq(statestack, 1, Len(statestack) - 1)
                  /\ Top(statestack') \in {"block", "list"}
                  /\ pos' = pos + 1
             ELSE statestack' = statestack]_vars

\* ["{}[]#'${A}"] has been tokenized: the string held brackets, '#', the
\* other quote and an interpolation, and the list closed after it
C16_Witness ==
    /\ text = StringBracketsText
    /\ pc = "done"
    /\ statestack = <<"root">>
    /\ \E i \in 1..Len(tokens) :
          /\ tokens[i].kind = "String.Double"
          /\ tokens[i].value = <<"{", "}", "[", "]", "#", "'">>
    /\ \E i \in 1..Len(tokens) : tokens[i].kind = "Name.Variable"

\* three '"' stand at offset p of t
TripleQuoteAt(t, p) == Lit(t, p, <<"\"", "\"", "\"">>)

\* with docstring active: a step at three '"' pops the docstring and
\* uncovers block, any other step keeps the stack, and a step at a '"'
\* not followed by two more emits that '"' alone as docstring text
DocstringSteps ==
    (pc = "lexing" /\ Top(statestack) = "docstring")
        => IF TripleQuoteAt(text, pos)
           THEN /\ statestack' = SubSeq(statestack, 1, Len(statestack) - 1)
                /\ Top(statestack') = "block"
                /\ pos' = pos + 3
           ELSE /\ statestack' = statestack
                /\ At(text, pos) = "\""
                      => tokens' = Append(tokens,
                                          Tok(pos, "String.Doc", <<"\"">>))

\* the step passes over the start of a '"""' without ending the docstring
PassesTripleQuote ==
    /\ pc = "lexing"
    /\ Top(statestack) = "docstring"
    /\ statestack' = statestack
    /\ \E q \in pos..(pos' - 1) : TripleQuoteAt(text, q)

\* C17 as stated: in docstring a '"' not followed by two more is docstring
\* text and keeps the state, only three '"' leave it, back to block, and
\* no step passes over a '"""': the docstring ends at the first '"""'
\* after its opening.
C17_EndsAtFirstTripleQuote ==
    [][DocstringSteps /\ ~PassesTripleQuote]_vars

\* C17 as amended: in docstring a '"' not followed by two more is docstring
\* text and keeps the state, and only three '"' at the cursor leave it,
\* back to block; the only step that passes over a '"""' is an
\* interpolation token whose default holds it, as in ${A:-"""}, so the
\* docstring ends at the first '"""' after its opening that is not inside
\* an interpolation.
C17_EndsAtTripleQuoteOutsideInterpolation ==
    [][/\ DocstringSteps
       /\ PassesTripleQuote
             => /\ Len(tokens') = Len(tokens) + 1
                /\ Last(tokens').kind = "Name.Variable"
                /\ Last(tokens').start = pos]_vars

\* {"""a "b" c""""} has been tokenized: the docstring held two single
\* quotes, ended at the first three '"', and the fourth '"' opened a string
C17_Witness ==
    /\ text = DocstringQuotesText
    /\ pc = "done"
    /\ statestack = <<"root", "block", "string_double">>
    /\ Len(SelectSeq(tokens, LAMBDA k : k = Tok(k.start, "String.Doc", <<"\"">>)))
          = 2

StringStates == {"string_double", "string_single", "docstring"}

\* C18: with string_double, string_single or docstring the active state
\* and a character left, some rule of the state matches at the cursor, so
\* the fallback token is never emitted there: a '$' starts an
\* interpolation token or is matched as literal string text, and every
\* other character is matched by a string rule.
C18_NoFallbackInStrings ==
    (pc = "lexing" /\ Top(statestack) \in StringStates /\ pos < Len(text))
        => \A rules \in {Rules(Top(statestack), text, pos)} :
              Matching(rules) # {}

\* the states a frame of this state can sit directly above
Below(state) ==
    CASE state = "block"         -> {"root", "block"}
      [] state = "list"          -> {"root", "block"}
      [] state = "string_double" -> {"block", "list"}
      [] state = "string_single" -> {"block", "list"}
      [] state = "docstring"     -> {"block"}
      [] OTHER                   -> {}

\* root, then block frames, then at most one list frame, then at most one
\* string or docstring frame on top, the docstring directly above a block
ShapeOK(stack) ==
    /\ Len(stack) >= 1
    /\ stack[1] = "root"
    /\ \A i \in 2..Len(stack) : stack[i - 1] \in Below(stack[i])

\* C19: every state stack reached is root, then zero or more block frames,
\* then at most one list frame, then at most one of string_double,
\* string_single and docstring on top, a docstring only directly above a
\* block frame; a step taken with list the active state pushes nothing but
\* a string state: it keeps the stack, pops the list, or pushes
\* string_double or string_single.
C19_StackShape ==
    [][/\ ShapeOK(statestack)
       /\ ShapeOK(statestack')
       /\ (pc = "lexing" /\ Top(statestack) = "list")
             => \/ statestack' = statestack
                \/ statestack' = SubSeq(statestack, 1, Len(statestack) - 1)
                \/ statestack' = Append(statestack, "string_double")
                \/ statestack' = Append(statestack, "string_single")]_vars

\* {{"""a"""[[{' has been tokenized: after a docstring above the second
\* block, a list whose '[' and '{' did not nest, with a string on top
C19_Witness ==
    /\ text = DeepText
    /\ pc = "done"
    /\ statestack = <<"root", "block", "block", "list", "string_single">>
    /\ \E i \in 1..Len(tokens) :
          tokens[i].kind = "Text" /\ tokens[i].value = <<"[", "{">>

\* whether w occurs in t
Occurs(t, w) == \E p \in 0..(Len(t) - Len(w)) : Lit(t, p, w)

\* /playground-dev-dev
DevDevPath == PlaygroundNoSlash \o <<"-", "d", "e", "v", "-", "d", "e", "v">>

\* C20: _replace_playground_urls applied to its own output changes nothing;
\* with DOCS_VERSION=dev the page that on_page_content has rewritten comes
\* out of on_post_page as it went in, and no hook makes a
\* /playground-dev-dev out of a page that had none; with any other
\* DOCS_VERSION both hooks return their input unchanged.
C20_ReplaceIdempotent ==
    [][/\ \E once \in {replace_playground_urls(html)} :
             replace_playground_urls(once) = once
       /\ (docs_version = "dev" /\ hook = "content") => html' = html
       /\ docs_version # "dev" => html' = html
       /\ Occurs(html', DevDevPath) => Occurs(html, DevDevPath)]_vars

\* with DOCS_VERSION=dev both hooks have run on the page with the three
\* forms of the link, and each link is the -dev link
C20_Witness ==
    /\ docs_version = "dev"
    /\ hook = "post"
    /\ html = ThreeLinksDevPage
    /\ ~Occurs(html, DevDevPath)

=============================================================================
